---- MODULE Spec2Model ----
(***************************************************************************)
(* Model of the XOR/match test peripheral of hw/misc/xor-test.c: two       *)
(* 32-bit registers (XDATA at 0x0, MATCHER at 0x4) behind a register bank, *)
(* and one level-triggered interrupt line.                                 *)
(*                                                                         *)
(* Words are kept at their C width.  TLC integers are 32-bit signed, so a  *)
(* uint32_t is a pair of 16-bit limbs <<hi, lo>> and a uint64_t a tuple of *)
(* four 16-bit limbs <<l3, l2, l1, l0>> (most significant first).          *)
(***************************************************************************)
EXTENDS Integers, Sequences, FiniteSets, TLC

\* ------------------------------------------------------------------ words

Limb == 0 .. 65535

RECURSIVE XorNat(_, _)
\* bitwise exclusive or of two naturals (the C operator ^ on one limb)
XorNat(a, b) ==
    IF a = 0 THEN b
    ELSE IF b = 0 THEN a
    ELSE (((a % 2) + (b % 2)) % 2) + (2 * XorNat(a \div 2, b \div 2))

\* uint32_t and uint64_t literals
U32(hi, lo) == <<hi, lo>>
U64(l3, l2, l1, l0) == <<l3, l2, l1, l0>>

\* integer promotion uint32_t -> uint64_t (zero extension)
Ext64(x) == <<0, 0, x[1], x[2]>>

\* conversion uint64_t -> uint32_t on assignment (the low 32 bits)
Trunc32(v) == <<v[3], v[4]>>

\* the C operator ^ on two uint64_t
Xor64(a, b) == [i \in 1 .. 4 |-> XorNat(a[i], b[i])]

\* the uint64_t fits in 32 bits
Is32(v) == v[1] = 0 /\ v[2] = 0

\* --------------------------------------------------- register definitions

\* REG32(XDATA, 0x0), REG32(MATCHER, 0x4): byte address A_ and word index R_
A_XDATA == 0
R_XDATA == 0
A_MATCHER == 4
R_MATCHER == 1
R_MAX == R_MATCHER + 1

\* the bus access sizes the memory region accepts (xor_test_ops.valid)
min_access_size == 4
max_access_size == 4

\* the static register table; a hook is named by the function it points to
\* (variant: the MATCHER descriptor carries XDATA's address)
xor_test_regs_info_same_addr ==
    << [name |-> "XDATA", addr |-> A_XDATA, reset |-> U32(0, 0),
        pre_write |-> "xor_test_xdata_pre_write", post_write |-> "NULL"],
       [name |-> "MATCHER", addr |-> A_XDATA, reset |-> U32(65535, 65535),
        pre_write |-> "NULL", post_write |-> "xor_test_matcher_post_write"] >>

xor_test_regs_info ==
    << [name |-> "XDATA", addr |-> A_XDATA, reset |-> U32(0, 0),
        pre_write |-> "xor_test_xdata_pre_write", post_write |-> "NULL"],
       [name |-> "MATCHER", addr |-> A_MATCHER, reset |-> U32(65535, 65535),
        pre_write |-> "NULL", post_write |-> "xor_test_matcher_post_write"] >>

\* ------------------------------------------------------------------ bounds

\* number of valid writes after a reset that the write history records
MaxHist == 2

\* values the bus may present (uint64_t value of the write handler)
BusValues ==
    { U64(0, 0, 0, 0), U64(0, 0, 0, 5), U64(0, 0, 0, 3),
      U64(0, 0, 65535, 65535), U64(0, 1, 0, 5) }

\* byte offsets the bus may present: both registers, an unaligned one, one
\* past the R_MAX * 4 bytes of the region
Offsets == {0, 2, 4, 8}

\* access sizes in bytes the bus may present
Sizes == {2, 4}

\* ------------------------------------------------------------------- state

VARIABLES
    regs,       \* XorTestState.regs: word index -> uint32_t
    irq,        \* level of the XorTestState.irq line (TRUE = raised)
    was_reset,  \* xor_test_reset has run at least once
    op,         \* the operation that completed last
    pre,        \* regs and irq when that operation started
    log,        \* what that operation did, in order, with the state after each step
    hist,       \* the valid writes since the last reset, up to MaxHist
    scen        \* progress through the reference scenario of the description

vars == <<regs, irq, was_reset, op, pre, log, hist, scen>>

\* the device state an operation works on, with the steps it has taken
Machine(r, l) == [regs |-> r, irq |-> l, log |-> <<>>]

Ev(ev, by, r, l) == [ev |-> ev, by |-> by, regs |-> r, irq |-> l]

\* ------------------------------------------------------------ interrupt line

qemu_irq_raise(m, by) ==
    [m EXCEPT !.irq = TRUE, !.log = Append(@, Ev("raise", by, m.regs, TRUE))]

qemu_irq_lower(m, by) ==
    [m EXCEPT !.irq = FALSE, !.log = Append(@, Ev("lower", by, m.regs, FALSE))]

\* an assignment to s->regs[idx] made by function `by`
StoreReg(m, idx, val32, by) ==
    LET r == [m.regs EXCEPT ![idx] = val32]
    IN  [m EXCEPT !.regs = r, !.log = Append(@, Ev("store", by, r, m.irq))]

\* a hook is entered
Enter(m, ev, by) == [m EXCEPT !.log = Append(@, Ev(ev, by, m.regs, m.irq))]

\* -------------------------------------------------------------- device logic

\* (variant: the line follows the comparison, lowered on a mismatch)
xor_test_update_irq_auto_lower(m) ==
    IF m.regs[R_XDATA] = m.regs[R_MATCHER]
    THEN qemu_irq_raise(m, "xor_test_update_irq")
    ELSE qemu_irq_lower(m, "xor_test_update_irq")

\* (variant: the comparison is missing)
xor_test_update_irq_always(m) == qemu_irq_raise(m, "xor_test_update_irq")

\* (variant: the line is lowered instead of raised on a match)
xor_test_update_irq_lowers(m) ==
    IF m.regs[R_XDATA] = m.regs[R_MATCHER]
    THEN qemu_irq_lower(m, "xor_test_update_irq")
    ELSE m

\* lines 66-72: raise the line when XDATA equals MATCHER, else leave it alone
xor_test_update_irq(m) ==
    IF m.regs[R_XDATA] = m.regs[R_MATCHER]
    THEN qemu_irq_raise(m, "xor_test_update_irq")
    ELSE m

\* (variant: the line is not lowered before the check)
xor_test_matcher_post_write_no_lower(m, val64) == xor_test_update_irq(m)

\* (variant: the match check runs before the line is lowered)
xor_test_matcher_post_write_check_first(m, val64) ==
    qemu_irq_lower(xor_test_update_irq(m), "xor_test_matcher_post_write")

\* lines 84-90: lower the line, then check for a match
xor_test_matcher_post_write(m, val64) ==
    xor_test_update_irq(qemu_irq_lower(m, "xor_test_matcher_post_write"))

\* (variant: the value returned to the bank has val64 folded in once more)
xor_test_xdata_pre_write_twice(m, val64) ==
    LET new == Trunc32(Xor64(Ext64(m.regs[R_XDATA]), val64))
        m1  == StoreReg(m, R_XDATA, new, "xor_test_xdata_pre_write")
        m2  == xor_test_update_irq(m1)
    IN  [m |-> m2, ret |-> Xor64(Ext64(m2.regs[R_XDATA]), val64)]

\* (variant: the register is overwritten with val64 instead of accumulated)
xor_test_xdata_pre_write_overwrite(m, val64) ==
    LET m1 == StoreReg(m, R_XDATA, Trunc32(val64), "xor_test_xdata_pre_write")
        m2 == xor_test_update_irq(m1)
    IN  [m |-> m2, ret |-> Ext64(m2.regs[R_XDATA])]

\* (variant: the new value is kept in a local and only returned)
xor_test_xdata_pre_write_local(m, val64) ==
    LET new == Trunc32(Xor64(Ext64(m.regs[R_XDATA]), val64))
    IN  [m |-> xor_test_update_irq(m), ret |-> Ext64(new)]

\* (variant: the match check runs before the register is updated)
xor_test_xdata_pre_write_check_first(m, val64) ==
    LET new == Trunc32(Xor64(Ext64(m.regs[R_XDATA]), val64))
        m1  == xor_test_update_irq(m)
        m2  == StoreReg(m1, R_XDATA, new, "xor_test_xdata_pre_write")
    IN  [m |-> m2, ret |-> Ext64(m2.regs[R_XDATA])]

\* (variant: the match check is made on the 64-bit value, before truncation)
xor_test_xdata_pre_write_wide(m, val64) ==
    LET new64 == Xor64(Ext64(m.regs[R_XDATA]), val64)
        m1    == StoreReg(m, R_XDATA, Trunc32(new64), "xor_test_xdata_pre_write")
        m2    == IF new64 = Ext64(m1.regs[R_MATCHER])
                 THEN qemu_irq_raise(m1, "xor_test_update_irq")
                 ELSE m1
    IN  [m |-> m2, ret |-> Ext64(m2.regs[R_XDATA])]

\* lines 101-109: s->regs[R_XDATA] = s->regs[R_XDATA] ^ val64 (computed in
\* 64 bits, truncated by the assignment), check for a match, return the
\* register (promoted to uint64_t)
xor_test_xdata_pre_write(m, val64) ==
    LET new == Trunc32(Xor64(Ext64(m.regs[R_XDATA]), val64))
        m1  == StoreReg(m, R_XDATA, new, "xor_test_xdata_pre_write")
        m2  == xor_test_update_irq(m1)
    IN  [m |-> m2, ret |-> Ext64(m2.regs[R_XDATA])]

\* ------------------------------------------------------------ register bank

\* the word of regs[] a descriptor's data pointer refers to
RegIndex(ac) == ac.addr \div 4

\* store a value in the 32-bit register of descriptor ac
register_write_val(m, ac, val64) ==
    StoreReg(m, RegIndex(ac), Trunc32(val64), "register_write_val")

\* set one register to its reset value; no hook runs
register_reset(m, ac) ==
    StoreReg(m, RegIndex(ac), ac.reset, "register_reset")

\* call through a descriptor's pre_write pointer
call_pre_write(m, ac, val64) ==
    IF ac.pre_write = "xor_test_xdata_pre_write"
    THEN xor_test_xdata_pre_write(Enter(m, "pre_write", ac.pre_write), val64)
    ELSE [m |-> m, ret |-> val64]

\* call through a descriptor's post_write pointer
call_post_write(m, ac, val64) ==
    IF ac.post_write = "xor_test_matcher_post_write"
    THEN xor_test_matcher_post_write(Enter(m, "post_write", ac.post_write), val64)
    ELSE m

\* write path: pre-write hook (its result is what is stored), store,
\* post-write hook with the stored value
register_write(m, ac, val64) ==
    LET pw == call_pre_write(m, ac, val64)
        m2 == register_write_val(pw.m, ac, pw.ret)
    IN  call_post_write(m2, ac, pw.ret)

\* read path: the stored value, no hook
register_read(m, ac) == Ext64(m.regs[RegIndex(ac)])

\* the descriptors of the table whose address is addr
FindReg(addr) ==
    {i \in 1 .. Len(xor_test_regs_info) : xor_test_regs_info[i].addr = addr}

\* (variant: min_access_size is left at its default)
xor_test_ops_valid_no_min(size) == size <= max_access_size

\* xor_test_ops.valid: the access sizes the region accepts
xor_test_ops_valid(size) == size >= min_access_size /\ size <= max_access_size

\* an access the region accepts: size, alignment, inside the R_MAX * 4 bytes
AccessValid(addr, size) ==
    /\ xor_test_ops_valid(size)
    /\ addr % size = 0
    /\ addr + size <= R_MAX * 4

\* the access reaches a register
ValidAccess(addr, size) == AccessValid(addr, size) /\ FindReg(addr) # {}

\* the bus write handler: [m: machine after, err: InvalidAccess reported]
register_write_memory(m, addr, val64, size) ==
    IF ~ValidAccess(addr, size)
    THEN [m |-> m, err |-> TRUE]
    ELSE LET i == CHOOSE j \in FindReg(addr) : \A k \in FindReg(addr) : j <= k
         IN  [m |-> register_write(m, xor_test_regs_info[i], val64), err |-> FALSE]

\* the bus read handler: [ret: value read, err: InvalidAccess reported]
register_read_memory(m, addr, size) ==
    IF ~ValidAccess(addr, size)
    THEN [ret |-> U64(0, 0, 0, 0), err |-> TRUE]
    ELSE LET i == CHOOSE j \in FindReg(addr) : \A k \in FindReg(addr) : j <= k
         IN  [ret |-> register_read(m, xor_test_regs_info[i]), err |-> FALSE]

RECURSIVE ResetAll(_, _)
\* the for loop of xor_test_reset: register_reset on descriptors i .. R_MAX
ResetAll(m, i) ==
    IF i > Len(xor_test_regs_info) THEN m
    ELSE ResetAll(register_reset(m, xor_test_regs_info[i]), i + 1)

\* (variant: the line is not lowered)
xor_test_reset_no_lower(m) == ResetAll(m, 1)

\* (variant: the reset values are written through the write path)
xor_test_reset_by_write(m) ==
    qemu_irq_lower(
        register_write(
            register_write(m, xor_test_regs_info[1], Ext64(xor_test_regs_info[1].reset)),
            xor_test_regs_info[2], Ext64(xor_test_regs_info[2].reset)),
        "xor_test_reset")

\* lines 138-148: reset every register, then lower the line
xor_test_reset(m) == qemu_irq_lower(ResetAll(m, 1), "xor_test_reset")

\* ------------------------------------------------------------- observation

Zero64 == U64(0, 0, 0, 0)

Op(kind, addr, size, val, ret, err) ==
    [kind |-> kind, addr |-> addr, size |-> size, val |-> val, ret |-> ret, err |-> err]

\* the reference scenario: reset, MATCHER=5, DATA=5, DATA=5, MATCHER=0
Five64 == U64(0, 0, 0, 5)

ScenStep(k) ==
    CASE k = 2 -> <<A_MATCHER, Five64>>
      [] k = 3 -> <<A_XDATA, Five64>>
      [] k = 4 -> <<A_XDATA, Five64>>
      [] k = 5 -> <<A_MATCHER, Zero64>>
      [] OTHER -> <<A_XDATA, Zero64>>

\* scen after a write: one step further when the write is the scenario's next
ScenAfterWrite(k, addr, val, size) ==
    IF k >= 1 /\ k < 5 /\ size = 4 /\ ScenStep(k + 1) = <<addr, val>>
    THEN k + 1 ELSE 0

\* hist after a valid write
HistAfterWrite(h, addr, val) ==
    IF h.tracked /\ Len(h.ws) < MaxHist
    THEN [h EXCEPT !.ws = Append(@, <<addr, val>>)]
    ELSE [tracked |-> FALSE, ws |-> <<>>]

\* ----------------------------------------------------------------- actions

\* xor_test_init: the object is zero-filled, the line is low
Init ==
    /\ regs = [i \in 0 .. R_MAX - 1 |-> U32(0, 0)]
    /\ irq = FALSE
    /\ was_reset = FALSE
    /\ op = Op("init", 0, 0, Zero64, Zero64, FALSE)
    /\ pre = [regs |-> [i \in 0 .. R_MAX - 1 |-> U32(0, 0)], irq |-> FALSE]
    /\ log = <<>>
    /\ hist = [tracked |-> FALSE, ws |-> <<>>]
    /\ scen = 0

\* device reset
Reset ==
    LET m == xor_test_reset(Machine(regs, irq))
    IN  /\ regs' = m.regs
        /\ irq' = m.irq
        /\ log' = m.log
        /\ was_reset' = TRUE
        /\ op' = Op("reset", 0, 0, Zero64, Zero64, FALSE)
        /\ pre' = [regs |-> regs, irq |-> irq]
        /\ hist' = [tracked |-> TRUE, ws |-> <<>>]
        /\ scen' = 1

\* one bus write of val, size bytes at addr
Write(addr, val, size) ==
    LET r == register_write_memory(Machine(regs, irq), addr, val, size)
    IN  /\ regs' = r.m.regs
        /\ irq' = r.m.irq
        /\ log' = r.m.log
        /\ op' = Op("write", addr, size, val, Zero64, r.err)
        /\ pre' = [regs |-> regs, irq |-> irq]
        /\ hist' = IF r.err THEN hist ELSE HistAfterWrite(hist, addr, val)
        /\ scen' = ScenAfterWrite(scen, addr, val, size)
        /\ UNCHANGED was_reset

\* one bus read of size bytes at addr
Read(addr, size) ==
    LET r == register_read_memory(Machine(regs, irq), addr, size)
    IN  /\ op' = Op("read", addr, size, Zero64, r.ret, r.err)
        /\ pre' = [regs |-> regs, irq |-> irq]
        /\ log' = <<>>
        /\ scen' = 0
        /\ UNCHANGED <<regs, irq, was_reset, hist>>

Next ==
    \/ Reset
    \/ \E addr \in Offsets, val \in BusValues, size \in Sizes : Write(addr, val, size)
    \/ \E addr \in Offsets, size \in Sizes : Read(addr, size)

Spec == Init /\ [][Next]_vars

TypeOK ==
    /\ regs \in [0 .. R_MAX - 1 -> Limb \X Limb]
    /\ irq \in BOOLEAN
    /\ was_reset \in BOOLEAN
    /\ scen \in 0 .. 5

\* ------------------------------------------------------------------- claims

DATA == regs[R_XDATA]
MATCHER == regs[R_MATCHER]
Zero32 == U32(0, 0)
Ones32 == U32(65535, 65535)
Five32 == U32(0, 5)

\* the last operation was a write that reached the register at addr
WroteTo(addr) == op.kind = "write" /\ ~op.err /\ op.addr = addr

\* the last operation was a bus access the address map does not allow
InvalidOp ==
    /\ op.kind \in {"read", "write"}
    /\ ~(op.size = 4 /\ op.addr \in {A_XDATA, A_MATCHER})

\* the steps of the last operation of one kind
Steps(ev) == {i \in 1 .. Len(log) : log[i].ev = ev}

\* C1: from any state, a device reset ends with DATA = 0,
\* MATCHER = 0xFFFFFFFF and the interrupt level low.
C1_ResetValues ==
    op.kind = "reset" => DATA = Zero32 /\ MATCHER = Ones32 /\ irq = FALSE

\* a reset taken with the line high and DATA equal to MATCHER, both nonzero
C1_Witness ==
    /\ op.kind = "reset"
    /\ pre.irq
    /\ pre.regs[R_XDATA] = pre.regs[R_MATCHER]
    /\ pre.regs[R_XDATA] # Zero32

\* C2: a valid write of v to DATA leaves DATA = old XOR v (the XOR applied
\* once); after reset, writing v1 gives DATA = v1 and writing v1 then v2
\* gives DATA = v1 XOR v2, for 32-bit v1, v2.
C2_XorAccumulate ==
    /\ WroteTo(A_XDATA) =>
           DATA = Trunc32(Xor64(Ext64(pre.regs[R_XDATA]), op.val))
    /\ \A v1 \in BusValues :
           (hist.tracked /\ hist.ws = << <<A_XDATA, v1>> >> /\ Is32(v1)) =>
               DATA = Trunc32(v1)
    /\ \A v1, v2 \in BusValues :
           (/\ hist.tracked
            /\ hist.ws = << <<A_XDATA, v1>>, <<A_XDATA, v2>> >>
            /\ Is32(v1) /\ Is32(v2)) =>
               DATA = Trunc32(Xor64(v1, v2))

\* reset, DATA = 5, DATA = 3 has left 6 in DATA
C2_Witness ==
    /\ hist.tracked
    /\ hist.ws = << <<A_XDATA, U64(0, 0, 0, 5)>>, <<A_XDATA, U64(0, 0, 0, 3)>> >>
    /\ WroteTo(A_XDATA)
    /\ DATA = U32(0, 6)

\* C3: after a valid write of a 32-bit x to MATCHER, MATCHER = x, DATA is
\* unchanged and the interrupt is high iff x = DATA, whatever it was before.
C3_MatcherWrite ==
    (WroteTo(A_MATCHER) /\ Is32(op.val)) =>
        /\ MATCHER = Trunc32(op.val)
        /\ Ext64(MATCHER) = op.val
        /\ DATA = pre.regs[R_XDATA]
        /\ irq <=> (op.val = Ext64(DATA))

\* a MATCHER write that found the line high and left it low
C3_Witness ==
    /\ WroteTo(A_MATCHER) /\ Is32(op.val)
    /\ pre.irq /\ ~irq
    /\ MATCHER # pre.regs[R_MATCHER]

\* C4: the interrupt goes from high to low only in a MATCHER write or a
\* reset; DATA writes, reads and invalid accesses never lower it.
C4_LowerOnlyByMatcherOrReset ==
    /\ (pre.irq /\ ~irq) => (op.kind = "reset" \/ WroteTo(A_MATCHER))
    /\ (op.kind \notin {"reset"} /\ ~WroteTo(A_MATCHER)) => Steps("lower") = {}

\* a DATA write that broke the match while the line was high, and left it high
C4_Witness ==
    /\ WroteTo(A_XDATA)
    /\ pre.irq /\ irq
    /\ pre.regs[R_XDATA] = pre.regs[R_MATCHER]
    /\ DATA # MATCHER

\* C5: the interrupt starts low and is raised only by the match check of a
\* valid DATA or MATCHER write, with DATA = MATCHER stored at that instant;
\* reset, reads and invalid accesses never raise it.
C5_RaiseOnlyOnMatch ==
    /\ op.kind = "init" => ~irq
    /\ \A i \in Steps("raise") :
           /\ log[i].by = "xor_test_update_irq"
           /\ log[i].regs[R_XDATA] = log[i].regs[R_MATCHER]
           /\ WroteTo(A_XDATA) \/ WroteTo(A_MATCHER)
    /\ (~pre.irq /\ irq) =>
           /\ Steps("raise") # {}
           /\ WroteTo(A_XDATA) \/ WroteTo(A_MATCHER)
    /\ (op.kind \in {"init", "reset", "read"} \/ op.err) => Steps("raise") = {}

\* a DATA write that raised the line from low
C5_Witness ==
    /\ WroteTo(A_XDATA)
    /\ ~pre.irq /\ irq
    /\ DATA = MATCHER

\* C6: an access of size other than 4, or at an offset other than 0x00 and
\* 0x04, is reported as InvalidAccess, runs no hook and changes neither
\* register nor the interrupt level.
C6_InvalidAccess ==
    InvalidOp =>
        /\ op.err
        /\ log = <<>>
        /\ regs = pre.regs
        /\ irq = pre.irq

\* a 2-byte write of a nonzero value at offset 0 with the line high
C6_Witness ==
    /\ op.kind = "write" /\ op.size = 2 /\ op.addr = A_XDATA
    /\ op.val = U64(0, 0, 0, 5)
    /\ op.err
    /\ irq /\ DATA # Zero32

\* C7: a 4-byte read of 0x00 returns DATA and of 0x04 returns MATCHER; a
\* read runs no hook and changes neither register nor the interrupt level.
C7_Read ==
    (op.kind = "read" /\ op.size = 4) =>
        /\ op.addr = A_XDATA => (~op.err /\ op.ret = Ext64(DATA))
        /\ op.addr = A_MATCHER => (~op.err /\ op.ret = Ext64(MATCHER))
        /\ log = <<>>
        /\ regs = pre.regs
        /\ irq = pre.irq

\* a read of MATCHER while DATA = MATCHER and the line is low
C7_Witness ==
    /\ op.kind = "read" /\ op.size = 4 /\ op.addr = A_MATCHER
    /\ ~op.err
    /\ DATA = MATCHER
    /\ ~irq
    /\ op.ret = Ext64(MATCHER)

\* C8: reset, MATCHER=5, DATA=5 gives DATA=5, MATCHER=5, high; DATA=5 again
\* gives DATA=0, MATCHER=5, still high; MATCHER=0 lowers the line and raises
\* it again, ending with DATA=0, MATCHER=0, high.
C8_Scenario ==
    /\ scen = 2 => (DATA = Zero32 /\ MATCHER = Five32 /\ ~irq)
    /\ scen = 3 => (DATA = Five32 /\ MATCHER = Five32 /\ irq)
    /\ scen = 4 => (DATA = Zero32 /\ MATCHER = Five32 /\ irq)
    /\ scen = 5 =>
           /\ DATA = Zero32 /\ MATCHER = Zero32 /\ irq
           /\ pre.irq
           /\ \E i \in Steps("lower") : \E j \in Steps("raise") : i < j

\* the scenario has run to its end
C8_Witness == scen = 5 /\ WroteTo(A_MATCHER)

\* the stores of the last operation made by function `by`
StoresBy(by) == {i \in Steps("store") : log[i].by = by}

\* the registers before step i of the last operation
RegsBefore(i) == IF i = 1 THEN pre.regs ELSE log[i - 1].regs

\* C9 (as stated): storage is written only by the bank's store step and its
\* reset, never by a hook; while the DATA pre-write hook runs and until the
\* bank stores the returned value, the stored DATA is still the old value.
C9_HooksNeverStore ==
    /\ \A i \in 1 .. Len(log) :
           log[i].regs # RegsBefore(i) =>
               /\ log[i].ev = "store"
               /\ log[i].by \in {"register_write_val", "register_reset"}
    /\ \A i \in 1 .. Len(log) :
           (/\ \E j \in Steps("pre_write") : j <= i
            /\ \A k \in StoresBy("register_write_val") : i < k) =>
               log[i].regs[R_XDATA] = pre.regs[R_XDATA]

\* C9 (amended): storage is written by the bank's store step, by its reset
\* and, for DATA only, by the DATA pre-write hook, which assigns old XOR v to
\* the stored DATA first thing, before its match check; the bank then stores
\* the returned value, which is that same value.  The post-write hook never
\* writes storage.
C9_StoreOwners ==
    /\ \A i \in Steps("store") :
           log[i].by \in {"register_write_val", "register_reset",
                          "xor_test_xdata_pre_write"}
    /\ \A i \in StoresBy("xor_test_xdata_pre_write") :
           /\ WroteTo(A_XDATA)
           /\ i > 1 /\ log[i - 1].ev = "pre_write"
           /\ log[i].regs[R_XDATA] =
                  Trunc32(Xor64(Ext64(pre.regs[R_XDATA]), op.val))
           /\ log[i].regs[R_MATCHER] = pre.regs[R_MATCHER]
    /\ WroteTo(A_XDATA) =>
           /\ Cardinality(StoresBy("xor_test_xdata_pre_write")) = 1
           /\ Cardinality(StoresBy("register_write_val")) = 1
           /\ \A i \in StoresBy("xor_test_xdata_pre_write") :
                  \A k \in StoresBy("register_write_val") :
                      /\ i < k
                      /\ log[k].regs = log[i].regs
                      /\ \A j \in i .. k : log[j].regs = log[i].regs
    /\ WroteTo(A_MATCHER) =>
           /\ Cardinality(Steps("store")) = 1
           /\ Cardinality(StoresBy("register_write_val")) = 1
           /\ \A k \in Steps("store") : \A j \in Steps("post_write") :
                  /\ k < j
                  /\ \A n \in j .. Len(log) : log[n].regs = log[k].regs
    /\ op.kind = "reset" => Steps("store") = StoresBy("register_reset")
    /\ (op.kind \in {"init", "read"} \/ op.err) => Steps("store") = {}

\* a DATA write whose hook changed the stored DATA before the bank's store
C9_Witness ==
    /\ WroteTo(A_XDATA)
    /\ \E i \in StoresBy("xor_test_xdata_pre_write") :
           /\ log[i].regs[R_XDATA] # pre.regs[R_XDATA]
           /\ \E k \in StoresBy("register_write_val") : i < k

\* C10: reset twice in a row gives the same DATA, MATCHER and interrupt
\* level as reset once; restoring the registers runs no hook and does not
\* change the interrupt level, only the final lowering does.
C10_ResetIdempotent ==
    /\ LET once  == xor_test_reset(Machine(regs, irq))
           twice == xor_test_reset(Machine(once.regs, once.irq))
       IN  twice.regs = once.regs /\ twice.irq = once.irq
    /\ op.kind = "reset" =>
           /\ LET again == xor_test_reset(Machine(regs, irq))
              IN  again.regs = regs /\ again.irq = irq
           /\ Len(log) = R_MAX + 1
           /\ \A i \in 1 .. R_MAX :
                  /\ log[i].ev = "store"
                  /\ log[i].by = "register_reset"
                  /\ log[i].irq = pre.irq
           /\ log[R_MAX + 1].ev = "lower"
           /\ log[R_MAX + 1].by = "xor_test_reset"
           /\ log[R_MAX + 1].regs = log[R_MAX].regs
           /\ Steps("pre_write") = {} /\ Steps("post_write") = {}
           /\ Steps("raise") = {}

\* a reset with the line high: both registers restored with the line still
\* high, then the lowering
C10_Witness ==
    /\ op.kind = "reset"
    /\ pre.irq
    /\ pre.regs # regs
    /\ Len(log) = R_MAX + 1
    /\ log[R_MAX].irq
    /\ ~irq

\* the value old XOR v that a DATA write of op.val leaves, in 32 bits
NewData == Trunc32(Xor64(Ext64(pre.regs[R_XDATA]), op.val))

\* C11: a valid DATA write of v from (DATA = old, MATCHER = m, level l)
\* ends with DATA = old XOR v, MATCHER = m and the interrupt high iff l was
\* high or old XOR v = m; the match check compares the new value with
\* MATCHER, not the old DATA and not the raw v.
C11_DataWriteEffect ==
    WroteTo(A_XDATA) =>
        /\ DATA = NewData
        /\ MATCHER = pre.regs[R_MATCHER]
        /\ irq <=> (pre.irq \/ NewData = pre.regs[R_MATCHER])
        /\ Steps("raise") # {} <=> NewData = pre.regs[R_MATCHER]
        /\ \A i \in Steps("raise") :
               /\ log[i].regs[R_XDATA] = NewData
               /\ log[i].regs[R_MATCHER] = pre.regs[R_MATCHER]
        /\ Steps("lower") = {}

\* a DATA write raised the line although neither the old DATA nor the value
\* written equals MATCHER
C11_Witness ==
    /\ WroteTo(A_XDATA) /\ Is32(op.val)
    /\ ~pre.irq /\ irq
    /\ pre.regs[R_XDATA] # pre.regs[R_MATCHER]
    /\ Trunc32(op.val) # pre.regs[R_MATCHER]
    /\ DATA = MATCHER

\* C12: inside a valid MATCHER write the incoming value is stored first,
\* then the post-write hook lowers the interrupt unconditionally, then the
\* match check runs against the just-stored MATCHER; so a write of x = DATA
\* with the line high takes the line through low and back to high.
C12_MatcherWriteOrder ==
    WroteTo(A_MATCHER) =>
        /\ Len(log) \in {3, 4}
        /\ log[1].ev = "store" /\ log[1].by = "register_write_val"
        /\ log[1].regs[R_MATCHER] = Trunc32(op.val)
        /\ log[1].regs[R_XDATA] = pre.regs[R_XDATA]
        /\ log[1].irq = pre.irq
        /\ log[2].ev = "post_write"
        /\ log[2].regs = log[1].regs
        /\ log[3].ev = "lower" /\ log[3].by = "xor_test_matcher_post_write"
        /\ log[3].irq = FALSE
        /\ log[3].regs = log[1].regs
        /\ Len(log) = 4 <=> Trunc32(op.val) = pre.regs[R_XDATA]
        /\ Len(log) = 4 =>
               /\ log[4].ev = "raise" /\ log[4].by = "xor_test_update_irq"
               /\ log[4].irq = TRUE
               /\ log[4].regs = log[1].regs
        /\ irq = (Len(log) = 4)

\* a MATCHER write of x = DATA, x not the previous MATCHER, with the line
\* high before: low in between, high at the end
C12_Witness ==
    /\ WroteTo(A_MATCHER)
    /\ pre.irq /\ irq
    /\ pre.regs[R_MATCHER] # MATCHER
    /\ Len(log) = 4
    /\ ~log[3].irq

Ones64 == U64(0, 0, 65535, 65535)

\* C13: no terminal state and no stuck level: in every reachable state
\* reset, read, DATA write and MATCHER write can be taken and complete, and
\* both a low and a high interrupt state can be reached by valid operations
\* (a reset gives low; after a reset, a DATA write of 0xFFFFFFFF gives high).
C13_NoTerminalState ==
    /\ ENABLED Reset
    /\ \A a \in {A_XDATA, A_MATCHER} :
           /\ ENABLED (Read(a, 4) /\ ~op'.err)
           /\ \A v \in BusValues :
                  ~register_write_memory(Machine(regs, irq), a, v, 4).err
    /\ ENABLED (Reset /\ ~irq')
    /\ op.kind = "reset" => ENABLED (Write(A_XDATA, Ones64, 4) /\ ~op'.err /\ irq')
    /\ LET m1 == xor_test_reset(Machine(regs, irq))
           r2 == register_write_memory(Machine(m1.regs, m1.irq), A_XDATA, Ones64, 4)
       IN  ~m1.irq /\ ~r2.err /\ r2.m.irq

\* the line is high after reset and one DATA write, from a state where it
\* had been high and was lowered by the reset
C13_Witness ==
    /\ WroteTo(A_XDATA)
    /\ hist.tracked /\ hist.ws = << <<A_XDATA, Ones64>> >>
    /\ ~pre.irq /\ irq

\* C14: between complete operations, once the device has been reset at least
\* once, DATA = MATCHER implies the interrupt level is high.
C14_MatchImpliesHigh == was_reset => (DATA = MATCHER => irq)

\* after a reset, a state with DATA = MATCHER (nonzero) and the line high
C14_Witness ==
    /\ was_reset
    /\ DATA = MATCHER
    /\ DATA # Zero32
    /\ irq
    /\ op.kind = "read"

\* C15: writing v to DATA twice in succession restores DATA to what it was
\* before the first write and leaves MATCHER unchanged; the interrupt is
\* then high iff it was high before the first write, or old XOR v equalled
\* MATCHER, or old equals MATCHER.  (Unprimed: the state after the first
\* write, whose pre is the state before it; primed: after the second.)
C15_DoubleWriteRestores ==
    [][ (WroteTo(A_XDATA) /\ WroteTo(A_XDATA)' /\ op'.val = op.val) =>
            /\ regs'[R_XDATA] = pre.regs[R_XDATA]
            /\ regs'[R_MATCHER] = pre.regs[R_MATCHER]
            /\ irq' <=> \/ pre.irq
                        \/ regs[R_XDATA] = pre.regs[R_MATCHER]
                        \/ pre.regs[R_XDATA] = pre.regs[R_MATCHER]
      ]_vars

\* reset, DATA = 0xFFFFFFFF twice: DATA is 0 again, and the line is high
\* because the intermediate value equalled MATCHER
C15_Witness ==
    /\ WroteTo(A_XDATA)
    /\ hist.tracked
    /\ hist.ws = << <<A_XDATA, Ones64>>, <<A_XDATA, Ones64>> >>
    /\ DATA = Zero32
    /\ DATA # MATCHER
    /\ irq

\* C16: DATA and MATCHER are always 32-bit values; a DATA write stores
\* (old XOR v) mod 2^32, and bits of v above bit 31 reach neither storage
\* nor the match check: the write has the effect of writing v mod 2^32.
C16_Width ==
    /\ regs \in [0 .. R_MAX - 1 -> Limb \X Limb]
    /\ \A i \in 1 .. Len(log) : log[i].regs \in [0 .. R_MAX - 1 -> Limb \X Limb]
    /\ WroteTo(A_XDATA) =>
           LET low == Ext64(Trunc32(op.val))
               r   == register_write_memory(Machine(pre.regs, pre.irq),
                                            A_XDATA, low, 4)
           IN  /\ DATA = Trunc32(Xor64(Ext64(pre.regs[R_XDATA]), low))
               /\ regs = r.m.regs
               /\ irq = r.m.irq
               /\ Steps("raise") # {} <=>
                      Trunc32(Xor64(Ext64(pre.regs[R_XDATA]), low)) = pre.regs[R_MATCHER]

\* a DATA write of a value with bit 32 set raised the line: its low 32 bits
\* made DATA equal to MATCHER
C16_Witness ==
    /\ WroteTo(A_XDATA)
    /\ ~Is32(op.val)
    /\ ~pre.irq /\ irq
    /\ DATA = MATCHER

====
